---- MODULE Spec2Model ----
(***************************************************************************)
(* Model of the text-circle validator (src/src/lib.rs).                    *)
(*                                                                         *)
(* A string is a sequence of one-character strings.  validate_text_circle  *)
(* is followed statement by statement: the four structural checks, the     *)
(* scan for misplaced background cells, the set-up of the escape-path      *)
(* search, and one action per iteration of the search loop.  A step that   *)
(* would abort the program (an unwrap of None, an index out of range, an   *)
(* arithmetic overflow in a build with overflow checks) moves pc to        *)
(* "panic".                                                                *)
(***************************************************************************)
EXTENDS Integers, Sequences, FiniteSets, TLC

VARIABLES
    s,                   \* the input of validate_text_circle
    pc,                  \* the statement validate_text_circle is at
    report,              \* the String returned
    missing_background,  \* the Vec of missing_background_characters
    h,                   \* path_out_of_circle: let h = height(s)
    unfound,             \* path_out_of_circle: the Vec of Locations unfound
    found_to_check,      \* path_out_of_circle: the frontier, a Vec of PathSteps
    checked,             \* path_out_of_circle: the Vec of expanded PathSteps
    last_step,           \* path_diagram: the PathStep the search ended on
    path_squares,        \* path_diagram: the Locations of the path
    paving,              \* path_diagram: the glyph of character_to_pave_with
    diagram_rows,        \* path_diagram: the rows rendered
    call,                \* the arguments of a direct call of required_background
    returned             \* what that call returned

vars == <<s, pc, report, missing_background, h, unfound, found_to_check,
          checked, last_step, path_squares, paving, diagram_rows, call, returned>>

(***************************************************************************)
(* Bounds of the checked input space.                                      *)
(***************************************************************************)
\* every string over Alphabet of at most MaxLen characters is an input
MaxLen == 5
\* the perfect ring of every radius 1..MaxRingRadius is an input
MaxRingRadius == 5
\* required_background is called directly on every cell of the grid of every
\* radius 0..MaxRadius
MaxRadius == 4
\* every grid whose side is in Sides and that differs from a base drawing (the
\* perfect ring, the empty grid) in at most MaxFlips cells is an input
MaxFlips == 3
Sides == 1..5
\* and so is every grid whose side is in LargeSides and that differs from a
\* base drawing in at most MaxLargeFlips cells
MaxLargeFlips == 1
LargeSides == {7}
\* every grid whose side is in FullSides, over every pair of glyphs, is an input
FullSides == 1..3

NL == "\n"
CR == "\r"
Glyphs == {"#", "X", "."}
Alphabet == Glyphs \cup {NL, CR}

(***************************************************************************)
(* Sequence helpers.                                                       *)
(***************************************************************************)
RECURSIVE Concat(_)
\* the concatenation of a sequence of strings (format!, String::from_iter)
Concat(q) == IF q = <<>> THEN "" ELSE Head(q) \o Concat(Tail(q))

RECURSIVE Join(_, _)
\* itertools join / slice join: the strings of q separated by sep
Join(q, sep) ==
    IF q = <<>> THEN ""
    ELSE IF Len(q) = 1 THEN q[1]
    ELSE q[1] \o sep \o Join(Tail(q), sep)

RECURSIVE Flatten(_)
\* the concatenation of a sequence of sequences
Flatten(q) == IF q = <<>> THEN <<>> ELSE Head(q) \o Flatten(Tail(q))

\* Iterator::any over a sequence
Contains(q, e) == \E i \in 1..Len(q) : q[i] = e

\* Iterator::max / Iterator::min over a non-empty sequence of numbers
MaxOf(q) == CHOOSE m \in {q[i] : i \in 1..Len(q)} : \A i \in 1..Len(q) : q[i] <= m
MinOf(q) == CHOOSE m \in {q[i] : i \in 1..Len(q)} : \A i \in 1..Len(q) : q[i] >= m

(***************************************************************************)
(* Grid Model: lines, height, radius, character_at, distinct_characters.   *)
(***************************************************************************)
\* str::split_inclusive('\n'): a piece ends after each newline, and what
\* follows the last newline is a piece unless it is empty
SplitInclusive(t) ==
    LET ends == {i \in 1..Len(t) : t[i] = NL}
        count == Cardinality(ends)
        end_of(k) == CHOOSE i \in ends : Cardinality({j \in ends : j <= i}) = k
        start_of(k) == IF k = 1 THEN 1 ELSE end_of(k - 1) + 1
        rest == IF count = 0 THEN 1 ELSE end_of(count) + 1
    IN  [k \in 1..count |-> SubSeq(t, start_of(k), end_of(k))]
            \o (IF rest <= Len(t) THEN <<SubSeq(t, rest, Len(t))>> ELSE <<>>)

\* str::lines on one piece: strip a final "\n", and then a final "\r" only
\* when the "\n" was there
StripLineEnding(piece) ==
    IF piece # <<>> /\ piece[Len(piece)] = NL
    THEN LET body == SubSeq(piece, 1, Len(piece) - 1)
         IN  IF body # <<>> /\ body[Len(body)] = CR
             THEN SubSeq(body, 1, Len(body) - 1)
             ELSE body
    ELSE piece

\* fn lines(s): s.lines().collect()
lines(t) ==
    LET pieces == SplitInclusive(t)
    IN  [i \in 1..Len(pieces) |-> StripLineEnding(pieces[i])]

\* fn height(s)
height(t) == Len(lines(t))

\* the widths iterator of fn square
widths(t) == [i \in 1..height(t) |-> Len(lines(t)[i])]

\* fn square(s), defined when s has at least one line
square(t) ==
    LET max_width == MaxOf(widths(t))
        min_width == MinOf(widths(t))
    IN  height(t) = max_width /\ min_width = max_width

\* fn odd(s)
odd(t) == height(t) % 2 = 1

RECURSIVE Unique(_, _)
\* itertools unique(): first occurrences, in order
Unique(q, seen) ==
    IF q = <<>> THEN <<>>
    ELSE IF Head(q) \in seen THEN Unique(Tail(q), seen)
    ELSE <<Head(q)>> \o Unique(Tail(q), seen \cup {Head(q)})

\* fn distinct_characters(s): only "\n" is removed before collecting
distinct_characters(t) == Unique(SelectSeq(t, LAMBDA c : c # NL), {})

\* fn radius(s)
radius(t) == height(t) \div 2

\* the indexing of character_at on the collected lines: lines[y], then its
\* characters at x (both 0-based); an index out of range panics
in_range(ls, x, y) == y < Len(ls) /\ x < Len(ls[y + 1])

\* the character character_at returns, given the collected lines
char_in(ls, x, y) == ls[y + 1][x + 1]

\* fn character_at(x, y, s), defined when in_range(lines(s), x, y)
character_at(x, y, t) == char_in(lines(t), x, y)

\* fn background_character(s)
background_character(t) == character_at(radius(t), radius(t), t)

(***************************************************************************)
(* Geometric Classifier.                                                   *)
(***************************************************************************)
\* usize::abs_diff
abs_diff(a, b) == IF a >= b THEN a - b ELSE b - a

\* Location::manhattan_distance
manhattan_distance(a, b) == abs_diff(a.x, b.x) + abs_diff(a.y, b.y)

\* `r - 1` on usize overflows exactly when r = 0: a panic in a build with
\* overflow checks, usize::MAX in a build without
sub_one_overflows(r) == r = 0

\* `(n as f64).sqrt() <= k as f64` for a small n and an integer k >= 0: the
\* square root is correctly rounded, exact at perfect squares and monotone,
\* so it is n <= k * k
sqrt_le(n, k) == n <= k * k

\* `(n as f64).sqrt() >= k as f64`, likewise
sqrt_ge(n, k) == n >= k * k

\* required_background gone wrong: r instead of r - 1
required_background_InnerOffByOne(x, y, r) ==
    LET x_offset == abs_diff(x, r)
        y_offset == abs_diff(y, r)
        sum == x_offset * x_offset + y_offset * y_offset
    IN  sqrt_le(sum, r) \/ sqrt_ge(sum, r + 1)

\* required_background gone wrong: the cells beyond the ring are forgotten
required_background_InsideOnly(x, y, r) ==
    LET x_offset == abs_diff(x, r)
        y_offset == abs_diff(y, r)
        sum == x_offset * x_offset + y_offset * y_offset
    IN  IF sub_one_overflows(r) THEN TRUE ELSE sqrt_le(sum, r - 1)

\* fn required_background(x, y, r), as the build without overflow checks
\* computes it: for r = 0 the wrapped r - 1 is usize::MAX, above every distance
required_background(x, y, r) ==
    LET x_offset == abs_diff(x, r)
        y_offset == abs_diff(y, r)
        sum == x_offset * x_offset + y_offset * y_offset
    IN  \/ IF sub_one_overflows(r) THEN TRUE ELSE sqrt_le(sum, r - 1)
        \/ sqrt_ge(sum, r + 1)

(***************************************************************************)
(* Structural Validator.                                                   *)
(***************************************************************************)
\* the scan of missing_background_characters calls required_background with
\* r = 0: Rust's && calls it only on a cell that differs from the background
scan_overflows(t) ==
    LET ls == lines(t)
        r == radius(t)
        background == char_in(ls, r, r)
    IN  /\ sub_one_overflows(r)
        /\ \E y \in 0..(Len(ls) - 1) : \E x \in 0..(Len(ls[y + 1]) - 1) :
               char_in(ls, x, y) # background

\* fn missing_background_characters(s): the (x, y) pushed, row by row
missing_background_characters(t) ==
    LET ls == lines(t)
        r == radius(t)
        background == char_in(ls, r, r)
        row(y) ==
            SelectSeq([i \in 1..Len(ls[y + 1]) |-> <<i - 1, y>>],
                      LAMBDA c : /\ char_in(ls, c[1], c[2]) # background
                                 /\ required_background(c[1], c[2], r))
    IN  Flatten([j \in 1..Len(ls) |-> row(j - 1)])

\* fn br_separated_tuples(v)
br_separated_tuples(v) ==
    Join([i \in 1..Len(v) |->
             "(" \o ToString(v[i][1]) \o ", " \o ToString(v[i][2]) \o ")"],
         "<br>")

\* the report strings of validate_text_circle
MsgEmpty == "Invalid. The input is empty."
MsgNotSquare == "Invalid. The input is not square."
MsgNotOdd == "Invalid. The side length of the square is not odd."
MsgSymbols == "Invalid. The input does not contain 2 distinct characters."
MsgMissing(background, formatted_missing_background) ==
    "Invalid. The following positions (x, y) from (0, 0) at left top should be background character \""
        \o background \o "\":<br>" \o formatted_missing_background
MsgPath(path) ==
    "Invalid. There should not be a path from inside the circle to outside:<br><br><code>"
        \o path \o "</code>"
MsgValid(r) == "This is a valid text circle of radius " \o ToString(r) \o "."

(***************************************************************************)
(* Escape-Path Finder.                                                     *)
(***************************************************************************)
\* Location::new
Location(x, y) == [x |-> x, y |-> y]

\* Option<Location>: None is the empty sequence, Some(l) is <<l>>
None == <<>>
Some(l) == <<l>>

\* PathStep::new
PathStep(location, parent, distance) ==
    [location |-> location, parent |-> parent, distance |-> distance]

\* the first part of path_out_of_circle: the background cells other than the
\* centre, pushed row by row
initial_unfound(t) ==
    LET ls == lines(t)
        r == radius(t)
        side == Len(ls)
        centre == Location(r, r)
        background == char_in(ls, r, r)
        row(y) ==
            SelectSeq([i \in 1..side |-> Location(i - 1, y)],
                      LAMBDA l : char_in(ls, l.x, l.y) = background /\ l # centre)
    IN  Flatten([j \in 1..side |-> row(j - 1)])

\* some character_at(x, y, s) of that first part indexes out of range
initial_unfound_panics(t) ==
    LET ls == lines(t)
        r == radius(t)
        side == Len(ls)
    IN  \/ ~in_range(ls, r, r)
        \/ \E y \in 0..(side - 1) : \E x \in 0..(side - 1) : ~in_range(ls, x, y)

RECURSIVE sort_descending(_, _)
\* found_to_check.sort_by(|a, b| b.distance.cmp(&a.distance)): a stable sort,
\* larger distances first, equal distances in their order of insertion
sort_descending(f, distances) ==
    IF distances = {} THEN <<>>
    ELSE LET m == CHOOSE d \in distances : \A e \in distances : e <= d
         IN  SelectSeq(f, LAMBDA st : st.distance = m)
                 \o sort_descending(f, distances \ {m})

\* sorted_frontier gone wrong: the frontier is not sorted, pop takes the last
\* step pushed
sorted_frontier_Unsorted(f) == f

\* the frontier after the sort of one loop iteration
sorted_frontier(f) == sort_descending(f, {f[i].distance : i \in 1..Len(f)})

\* edge_square gone wrong: the bottom row is not taken for an edge
edge_square_NoBottomRow(l, side) == l.x = 0 \/ l.y = 0 \/ l.x = side - 1

\* fn edge_square(l, height), short-circuit included
edge_square(l, side) == l.x = 0 \/ l.y = 0 \/ l.x = side - 1 \/ l.y = side - 1

\* edge_square computes `height - 1` with height = 0
edge_square_overflows(l, side) == l.x # 0 /\ l.y # 0 /\ side = 0

\* fn neighbours_in_unfound(candidate, unfound)
neighbours_in_unfound(candidate, unf) ==
    SelectSeq(unf, LAMBDA l : manhattan_distance(l, candidate.location) = 1)

\* iter().position(|u| u == neighbour): the first index (from 1), 0 for None
position(v, e) ==
    IF Contains(v, e)
    THEN CHOOSE i \in 1..Len(v) : v[i] = e /\ \A j \in 1..(i - 1) : v[j] # e
    ELSE 0

\* swap_remove gone wrong: the last element is copied, the Vec is not shortened
swap_remove_NotShortened(v, i) == [v EXCEPT ![i] = v[Len(v)]]

\* Vec::swap_remove at index i (from 1): the last element takes its place
swap_remove(v, i) == SubSeq([v EXCEPT ![i] = v[Len(v)]], 1, Len(v) - 1)

\* remove_neighbours gone wrong: only the first neighbour leaves unfound
remove_neighbours_FirstOnly(unf, neighbours) ==
    IF neighbours = <<>> THEN [ok |-> TRUE, unfound |-> unf]
    ELSE LET i == position(unf, Head(neighbours))
         IN  IF i = 0 THEN [ok |-> FALSE, unfound |-> unf]
             ELSE [ok |-> TRUE, unfound |-> swap_remove(unf, i)]

RECURSIVE remove_neighbours(_, _)
\* the swap_remove of each neighbour in turn; ok is FALSE when a position is
\* None, whose unwrap panics
remove_neighbours(unf, neighbours) ==
    IF neighbours = <<>> THEN [ok |-> TRUE, unfound |-> unf]
    ELSE LET i == position(unf, Head(neighbours))
         IN  IF i = 0 THEN [ok |-> FALSE, unfound |-> unf]
             ELSE remove_neighbours(swap_remove(unf, i), Tail(neighbours))

\* the steps pushed on found_to_check for the neighbours of a candidate
new_steps(candidate, neighbours) ==
    [i \in 1..Len(neighbours) |->
        PathStep(neighbours[i], Some(candidate.location), candidate.distance + 1)]

(***************************************************************************)
(* Diagram Renderer.                                                       *)
(***************************************************************************)
\* potential_paving gone wrong: only two candidates
potential_paving_TwoGlyphs == <<"#", "X">>

\* the candidate glyphs of character_to_pave_with, in order of preference
potential_paving == <<"#", "X", ".">>

\* the candidates character_to_pave_with keeps; it returns the first, and
\* panics on the index when none is left
unused_paving(t) ==
    LET used_characters == distinct_characters(t)
    IN  SelectSeq(potential_paving, LAMBDA c : ~Contains(used_characters, c))

RECURSIVE walk_parents(_, _)
\* the first loop of path_diagram: the locations from last_step back to the
\* start; ok is FALSE when a parent is not among checked_squares (the index
\* [0] of an empty Vec panics)
walk_parents(current_step, checked_squares) ==
    IF current_step.parent = None
    THEN [ok |-> TRUE, path_squares |-> <<current_step.location>>]
    ELSE LET found == SelectSeq(checked_squares,
                          LAMBDA st : st.location = current_step.parent[1])
         IN  IF found = <<>>
             THEN [ok |-> FALSE, path_squares |-> <<current_step.location>>]
             ELSE LET rest == walk_parents(found[1], checked_squares)
                  IN  [ok |-> rest.ok,
                       path_squares |-> <<current_step.location>> \o rest.path_squares]

\* render_rows gone wrong: x and y are swapped in the look-up of the path
render_rows_Transposed(squares, glyph, t) ==
    LET ls == lines(t)
        side == Len(ls)
    IN  [j \in 1..side |-> [i \in 1..side |->
            IF Contains(squares, Location(j - 1, i - 1))
            THEN glyph ELSE char_in(ls, i - 1, j - 1)]]

\* the second loop of path_diagram: each row of the grid, the path's cells
\* replaced by the paving glyph
render_rows(squares, glyph, t) ==
    LET ls == lines(t)
        side == Len(ls)
    IN  [j \in 1..side |-> [i \in 1..side |->
            IF Contains(squares, Location(i - 1, j - 1))
            THEN glyph ELSE char_in(ls, i - 1, j - 1)]]

\* diagram_rows.join("<br>"), each row a String
joined_diagram(rows) == Join([j \in 1..Len(rows) |-> Concat(rows[j])], "<br>")

(***************************************************************************)
(* The inputs checked.                                                     *)
(***************************************************************************)
\* The cells of a grid of side n are numbered row by row from 0: cell i is
\* (x, y) = (i % side, i \div side).

\* the text of the grid of side n whose cells in ring hold fg and whose
\* other cells hold bg, the rows separated by eol
grid_text(side, ring, bg, fg, eol) ==
    Flatten([k \in 1..(2 * side - 1) |->
        IF k % 2 = 0 THEN eol
        ELSE [i \in 1..side |->
                 IF ((k - 1) \div 2) * side + (i - 1) \in ring THEN fg ELSE bg]])

\* the cells of the open band r - 1 < d < r + 1 around the centre of a grid
\* of side n, r = side / 2
band(side) ==
    LET r == side \div 2
    IN  {i \in 0..(side * side - 1) :
            LET dx == (i % side) - r
                dy == (i \div side) - r
                sum == dx * dx + dy * dy
            IN  (r = 0 \/ sum > (r - 1) * (r - 1)) /\ sum < (r + 1) * (r + 1)}

\* a choice of at most k of the cells 0..n-1: increasing cell numbers, then
\* n for each choice not used
choices(n, k) ==
    {f \in [1..k -> 0..n] :
        \A i \in 1..(k - 1) : f[i] < f[i + 1] \/ f[i + 1] = n}

\* the cells of a choice
chosen(f, n) == {f[i] : i \in DOMAIN f} \ {n}

\* the symmetric difference of two sets
flip(A, B) == (A \ B) \cup (B \ A)

\* every string of at most MaxLen characters
ShortString(t) == \E n \in 0..MaxLen : t \in [1..n -> Alphabet]

\* a grid of side `side` within k cells of the perfect ring or of the empty
\* grid
NearDrawingOf(t, side, k) ==
    \E base \in {band(side), {}} : \E f \in choices(side * side, k) :
        t = grid_text(side, flip(base, chosen(f, side * side)), ".", "#", <<NL>>)

\* the near drawings checked
NearDrawing(t) ==
    \/ \E side \in Sides : NearDrawingOf(t, side, MaxFlips)
    \/ \E side \in LargeSides : NearDrawingOf(t, side, MaxLargeFlips)

\* the perfect ring of a radius in 1..MaxRingRadius, over a pair of glyphs
PerfectRing(t) ==
    \E r \in 1..MaxRingRadius :
        \E p \in {<<".", "#">>, <<"#", "X">>, <<"X", ".">>} :
            t = grid_text(2 * r + 1, band(2 * r + 1), p[1], p[2], <<NL>>)

\* a grid whose side is in FullSides, over a pair of glyphs, the rows ended by
\* LF or by CR LF
SmallGrid(t) ==
    \E side \in FullSides : \E ring \in SUBSET (0..(side * side - 1)) :
        \E p \in {<<".", "#">>, <<"#", "X">>, <<"X", ".">>} :
            \E eol \in {<<NL>>, <<CR, NL>>} :
                t = grid_text(side, ring, p[1], p[2], eol)

(***************************************************************************)
(* validate_text_circle as a state machine.                                *)
(***************************************************************************)
no_step == PathStep(Location(0, 0), None, 0)

\* no direct call of required_background
no_call == [x |-> 0, y |-> 0, r |-> 0]

\* the state a call of validate_text_circle starts from, the input apart
Fresh ==
    /\ report = ""
    /\ missing_background = <<>>
    /\ h = 0
    /\ unfound = <<>>
    /\ found_to_check = <<>>
    /\ checked = <<>>
    /\ last_step = no_step
    /\ path_squares = <<>>
    /\ paving = ""
    /\ diagram_rows = <<>>

Init ==
    /\ \/ ShortString(s)
       \/ NearDrawing(s)
       \/ PerfectRing(s)
       \/ SmallGrid(s)
    /\ pc = "check_empty"
    /\ Fresh
    /\ call = no_call
    /\ returned = "none"

search_vars == <<h, unfound, found_to_check, checked>>
diagram_vars == <<last_step, path_squares, paving, diagram_rows>>
call_vars == <<call, returned>>

\* return a report
Return(message) == report' = message /\ pc' = "done"

\* abort
Panic == report' = report /\ pc' = "panic"

\* go on with the next statement
Goto(label) == report' = report /\ pc' = label

\* lib.rs 38-40
CheckEmpty ==
    /\ pc = "check_empty"
    /\ IF Len(s) = 0 THEN Return(MsgEmpty) ELSE Goto("check_square")
    /\ UNCHANGED <<s, missing_background, search_vars, diagram_vars, call_vars>>

\* CheckSquare gone wrong: the symbol count is checked before the side's parity
CheckSquare_SymbolsBeforeOdd ==
    /\ pc = "check_square"
    /\ IF lines(s) = <<>> THEN Panic
       ELSE IF ~square(s) THEN Return(MsgNotSquare)
       ELSE IF Len(distinct_characters(s)) # 2 THEN Return(MsgSymbols)
       ELSE Goto("check_odd")
    /\ UNCHANGED <<s, missing_background, search_vars, diagram_vars, call_vars>>

\* lib.rs 42-44; max().unwrap() and min().unwrap() panic on no line at all
CheckSquare ==
    /\ pc = "check_square"
    /\ IF lines(s) = <<>> THEN Panic
       ELSE IF ~square(s) THEN Return(MsgNotSquare)
       ELSE Goto("check_odd")
    /\ UNCHANGED <<s, missing_background, search_vars, diagram_vars, call_vars>>

\* lib.rs 46-48
CheckOdd ==
    /\ pc = "check_odd"
    /\ IF ~odd(s) THEN Return(MsgNotOdd) ELSE Goto("check_distinct")
    /\ UNCHANGED <<s, missing_background, search_vars, diagram_vars, call_vars>>

\* lib.rs 50-52
CheckDistinct ==
    /\ pc = "check_distinct"
    /\ IF Len(distinct_characters(s)) # 2 THEN Return(MsgSymbols)
       ELSE Goto("check_background")
    /\ UNCHANGED <<s, missing_background, search_vars, diagram_vars, call_vars>>

\* the rest of lib.rs 54-60 once the scan has returned
ReportMissing(missing) ==
    /\ missing_background' = missing
    /\ IF Len(missing) > 0
       THEN Return(MsgMissing(background_character(s), br_separated_tuples(missing)))
       ELSE Goto("path_out_of_circle")

\* lib.rs 54-60; overflow_checks is the build's setting, which decides what
\* an overflowing `r - 1` does
CheckBackground ==
    /\ pc = "check_background"
    /\ IF ~in_range(lines(s), radius(s), radius(s))
       THEN Panic /\ UNCHANGED missing_background
       ELSE IF scan_overflows(s)
       THEN \E overflow_checks \in BOOLEAN :
                IF overflow_checks
                THEN Panic /\ UNCHANGED missing_background
                ELSE ReportMissing(missing_background_characters(s))
       ELSE ReportMissing(missing_background_characters(s))
    /\ UNCHANGED <<s, search_vars, diagram_vars, call_vars>>

\* lib.rs 136-159: the set-up of path_out_of_circle
SearchStart ==
    /\ pc = "path_out_of_circle"
    /\ IF initial_unfound_panics(s)
       THEN Panic /\ UNCHANGED search_vars
       ELSE /\ h' = height(s)
            /\ unfound' = initial_unfound(s)
            /\ found_to_check' =
                   <<PathStep(Location(radius(s), radius(s)), None, 0)>>
            /\ checked' = <<>>
            /\ Goto("loop")
    /\ UNCHANGED <<s, missing_background, diagram_vars, call_vars>>

\* lib.rs 162-164 and 64: the frontier is empty, no path, the grid is valid
SearchReturnNone ==
    /\ pc = "loop"
    /\ Len(found_to_check) = 0
    /\ Return(MsgValid(radius(s)))
    /\ UNCHANGED <<s, missing_background, search_vars, diagram_vars, call_vars>>

\* lib.rs 191-220 and 63: the diagram of the path that ends at last
ReportPath(last) ==
    LET walked == walk_parents(last, checked)
        glyphs == unused_paving(s)
        rows == render_rows(walked.path_squares, glyphs[1], s)
    IN  /\ last_step' = last
        /\ IF glyphs = <<>> \/ ~walked.ok \/ initial_unfound_panics(s)
           THEN Panic /\ UNCHANGED <<path_squares, paving, diagram_rows>>
           ELSE /\ path_squares' = walked.path_squares
                /\ paving' = glyphs[1]
                /\ diagram_rows' = rows
                /\ Return(MsgPath(joined_diagram(rows)))

\* lib.rs 166-170: the candidate popped after the sort is on the edge
SearchReturnPath ==
    /\ pc = "loop"
    /\ Len(found_to_check) > 0
    /\ LET sorted == sorted_frontier(found_to_check)
           candidate == sorted[Len(sorted)]
       IN  /\ ~edge_square_overflows(candidate.location, h)
           /\ edge_square(candidate.location, h)
           /\ found_to_check' = SubSeq(sorted, 1, Len(sorted) - 1)
           /\ ReportPath(candidate)
    /\ UNCHANGED <<s, missing_background, h, unfound, checked, call_vars>>

\* lib.rs 173-181: the neighbours of the candidate leave unfound for the
\* frontier, the candidate joins checked
Expand(candidate, popped) ==
    LET unfound_neighbours == neighbours_in_unfound(candidate, unfound)
        removed == remove_neighbours(unfound, unfound_neighbours)
    IN  IF ~removed.ok
        THEN Panic /\ UNCHANGED <<unfound, found_to_check, checked>>
        ELSE /\ unfound' = removed.unfound
             /\ found_to_check' = popped \o new_steps(candidate, unfound_neighbours)
             /\ checked' = Append(checked, candidate)
             /\ Goto("loop")

\* lib.rs 166-181: the candidate popped after the sort is not on the edge.
\* An overflowing `height - 1` panics in a build with overflow checks and is
\* usize::MAX, which no coordinate equals, in a build without.
SearchExpand ==
    /\ pc = "loop"
    /\ Len(found_to_check) > 0
    /\ LET sorted == sorted_frontier(found_to_check)
           candidate == sorted[Len(sorted)]
           popped == SubSeq(sorted, 1, Len(sorted) - 1)
       IN  IF edge_square_overflows(candidate.location, h)
           THEN \E overflow_checks \in BOOLEAN :
                    IF overflow_checks
                    THEN Panic /\ UNCHANGED <<unfound, found_to_check, checked>>
                    ELSE Expand(candidate, popped)
           ELSE /\ ~edge_square(candidate.location, h)
                /\ Expand(candidate, popped)
    /\ UNCHANGED <<s, missing_background, h, diagram_vars, call_vars>>

Next ==
    \/ CheckEmpty
    \/ CheckSquare
    \/ CheckOdd
    \/ CheckDistinct
    \/ CheckBackground
    \/ SearchStart
    \/ SearchReturnNone
    \/ SearchReturnPath
    \/ SearchExpand

Spec == Init /\ [][Next]_vars

(***************************************************************************)
(* required_background called directly, as a pure function of (x, y, r).   *)
(***************************************************************************)
InitClassifier ==
    /\ s = <<>>
    /\ pc = "call"
    /\ Fresh
    /\ \E r \in 0..MaxRadius : \E x \in 0..(2 * r) : \E y \in 0..(2 * r) :
           call = [x |-> x, y |-> y, r |-> r]
    /\ returned = "none"

\* lib.rs 128-133; overflow_checks is the build's setting, which decides what
\* an overflowing `r - 1` does
CallRequiredBackground ==
    /\ pc = "call"
    /\ \E overflow_checks \in BOOLEAN :
           returned' =
               IF sub_one_overflows(call.r) /\ overflow_checks THEN "panic"
               ELSE IF required_background(call.x, call.y, call.r) THEN "true"
               ELSE "false"
    /\ pc' = "called"
    /\ UNCHANGED <<s, report, missing_background, search_vars, diagram_vars, call>>

NextClassifier == CallRequiredBackground

SpecClassifier == InitClassifier /\ [][NextClassifier]_vars

(***************************************************************************)
(* What the claims speak of, stated on the grid g of the input: its rows,  *)
(* each a sequence of characters.                                          *)
(***************************************************************************)
\* the characters of the input, the newline apart
UsedCharacters == {s[i] : i \in 1..Len(s)} \ {NL}

\* the rows are as many as the characters of each
IsSquare(g) == g # <<>> /\ \A i \in 1..Len(g) : Len(g[i]) = Len(g)

\* the input is a square grid of odd side with exactly two symbols
WellFormed(g) ==
    /\ Len(s) > 0
    /\ IsSquare(g)
    /\ Len(g) % 2 = 1
    /\ Cardinality(UsedCharacters) = 2

\* the cells (x, y) of the grid, and the character of a cell
CellsOf(g) == (0..(Len(g) - 1)) \X (0..(Len(g) - 1))
At(g, c) == g[c[2] + 1][c[1] + 1]

\* the centre cell (r, r), r = h / 2, and the background character it holds
RadiusOf(g) == Len(g) \div 2
CentreOf(g) == <<RadiusOf(g), RadiusOf(g)>>
BackgroundOf(g) == At(g, CentreOf(g))

\* the cells that hold the background character
BackgroundCellsOf(g) ==
    LET bg == BackgroundOf(g)
    IN  {c \in CellsOf(g) : At(g, c) = bg}

\* the cell is on the outer border of the grid
OnBorder(g, c) ==
    c[1] = 0 \/ c[2] = 0 \/ c[1] = Len(g) - 1 \/ c[2] = Len(g) - 1

\* the cells at Manhattan distance exactly 1 of a cell
Around(c) ==
    {<<c[1] + 1, c[2]>>, <<c[1] - 1, c[2]>>, <<c[1], c[2] + 1>>, <<c[1], c[2] - 1>>}

RECURSIVE Flood(_, _, _)
\* `seen` and the cells of `cells` joined to `layer` by chains of 4-adjacent
\* cells of `cells`
Flood(layer, seen, cells) ==
    LET more == ((UNION {Around(c) : c \in layer}) \cap cells) \ seen
    IN  IF more = {} THEN seen ELSE Flood(more, seen \cup more, cells)

\* the background cells joined to the centre by 4-adjacent background cells
ReachableOf(g) == Flood({CentreOf(g)}, {CentreOf(g)}, BackgroundCellsOf(g))

\* some border cell is reachable from the centre
EscapeIn(g) == \E c \in ReachableOf(g) : OnBorder(g, c)

RECURSIVE StepsToBorder(_, _, _, _, _)
\* the least number of 4-adjacent steps over `cells` from the cells of
\* `layer`, which are k steps from the centre, to a border cell; -1 if none
StepsToBorder(g, layer, seen, cells, k) ==
    IF layer = {} THEN -1
    ELSE IF \E c \in layer : OnBorder(g, c) THEN k
    ELSE LET more == ((UNION {Around(c) : c \in layer}) \cap cells) \ seen
         IN  StepsToBorder(g, more, seen \cup more, cells, k + 1)

\* the length of a shortest escape path, in steps
ShortestEscapeIn(g) ==
    StepsToBorder(g, {CentreOf(g)}, {CentreOf(g)}, BackgroundCellsOf(g), 0)

\* the square of the Euclidean distance d of a cell from the centre
SquaredDistance(g, c) ==
    (c[1] - RadiusOf(g)) * (c[1] - RadiusOf(g))
        + (c[2] - RadiusOf(g)) * (c[2] - RadiusOf(g))

\* d <= r - 1 or d >= r + 1, in exact integer arithmetic
OutsideBand(g, c) ==
    LET r == RadiusOf(g)
    IN  \/ r - 1 >= 0 /\ SquaredDistance(g, c) <= (r - 1) * (r - 1)
        \/ SquaredDistance(g, c) >= (r + 1) * (r + 1)

\* r - 1 < d < r + 1, for r >= 1
InBand(g, c) ==
    LET r == RadiusOf(g)
    IN  /\ (r - 1) * (r - 1) < SquaredDistance(g, c)
        /\ SquaredDistance(g, c) < (r + 1) * (r + 1)

\* the cells that must hold the background character and do not
MisplacedIn(g) ==
    LET bg == BackgroundOf(g)
    IN  {c \in CellsOf(g) : At(g, c) # bg /\ OutsideBand(g, c)}

RECURSIVE RowMajor(_)
\* the cells of a set in row-major order: y ascending, then x ascending
RowMajor(S) ==
    IF S = {} THEN <<>>
    ELSE LET first == CHOOSE c \in S : \A d \in S :
                          c[2] < d[2] \/ (c[2] = d[2] /\ c[1] <= d[1])
         IN  <<first>> \o RowMajor(S \ {first})

\* "(x, y)" for each cell, joined by <br>
Listed(cells) ==
    Join([i \in 1..Len(cells) |->
             "(" \o ToString(cells[i][1]) \o ", " \o ToString(cells[i][2]) \o ")"],
         "<br>")

\* the rows of a diagram as the text between <code> and </code>
DiagramText(rows) == Join([j \in 1..Len(rows) |-> Concat(rows[j])], "<br>")

\* a Location as a cell (x, y)
CellOf(l) == <<l.x, l.y>>

\* the search of path_out_of_circle has run to its end
SearchOver == pc = "done" /\ h > 0

\* an escape path has been reported
PathReported == SearchOver /\ diagram_rows # <<>>

(***************************************************************************)
(* The claims.                                                             *)
(***************************************************************************)
\* the report of the first check that fails, in the order EmptyInput,
\* NotSquare, EvenSideLength, WrongSymbolCount, MisplacedBackground,
\* EscapePathExists; the valid message when none fails
FirstFailure(g) ==
    IF Len(s) = 0 THEN MsgEmpty
    ELSE IF ~IsSquare(g) THEN MsgNotSquare
    ELSE IF Len(g) % 2 # 1 THEN MsgNotOdd
    ELSE IF Cardinality(UsedCharacters) # 2 THEN MsgSymbols
    ELSE IF MisplacedIn(g) # {}
         THEN MsgMissing(BackgroundOf(g), Listed(RowMajor(MisplacedIn(g))))
    ELSE IF EscapeIn(g) THEN MsgPath(DiagramText(diagram_rows))
    ELSE MsgValid(RadiusOf(g))

\* C1: the report returned is that of the earliest failing check in the order
\* EmptyInput, NotSquare, EvenSideLength, WrongSymbolCount, MisplacedBackground,
\* EscapePathExists, even when later checks would fail too, and the valid
\* message is returned only when none of the six fails.
C1_FirstFailingCheckWins == pc = "done" => report = FirstFailure(lines(s))

\* C1 witness: a square grid of even side with a single character has
\* returned the not-odd report.
C1_Witness_EvenSingleSymbol ==
    /\ pc = "done"
    /\ report = MsgNotOdd
    /\ IsSquare(lines(s))
    /\ Cardinality(UsedCharacters) = 1

\* the seven reports
IsReport(m) ==
    \/ m \in {MsgEmpty, MsgNotSquare, MsgNotOdd, MsgSymbols}
    \/ /\ missing_background # <<>>
       /\ m = MsgMissing(BackgroundOf(lines(s)), Listed(missing_background))
    \/ /\ diagram_rows # <<>>
       /\ m = MsgPath(DiagramText(diagram_rows))
    \/ m = MsgValid(RadiusOf(lines(s)))

\* C2: validate_text_circle never aborts: no step panics (no unwrap of None,
\* no index out of range, no overflowing r - 1 or height - 1, a paving glyph
\* is always left, every neighbour is found in unfound, every parent is found
\* in checked), and what it returns is one of the seven reports.
C2_NeverAborts ==
    /\ pc # "panic"
    /\ pc = "done" => IsReport(report)

\* C2 witness: a call has gone through every fallible step, down to a diagram
\* whose path has parents to look up.
C2_Witness_DiagramReturned ==
    /\ pc = "done"
    /\ Len(path_squares) >= 3
    /\ report = MsgPath(DiagramText(diagram_rows))

\* C3: for a square grid of odd side with exactly two symbols and no misplaced
\* background cell, the report is the valid message if no border cell is
\* reachable from the centre over 4-adjacent background cells and the
\* escape-path message if one is, and the radius reported is h / 2.
C3_ValidIffNoEscape ==
    pc = "done" =>
        LET g == lines(s)
        IN  (WellFormed(g) /\ MisplacedIn(g) = {}) =>
                /\ report = MsgValid(Len(g) \div 2) <=> ~EscapeIn(g)
                /\ (diagram_rows # <<>> /\ report = MsgPath(DiagramText(diagram_rows)))
                       <=> EscapeIn(g)

\* C3 witness: a grid of side 5 with a closed ring has been reported valid,
\* of radius 2.
C3_Witness_ValidRadius2 ==
    /\ pc = "done"
    /\ h = 5
    /\ ~EscapeIn(lines(s))
    /\ report = MsgValid(2)

\* the cells the diagram shows with the paving glyph
PavedCells(g) == {c \in CellsOf(g) : diagram_rows[c[2] + 1][c[1] + 1] = paving}

\* C4: a reported escape path is a shortest one: the terminal PathStep carries
\* the least number of 4-adjacent background steps from the centre to a border
\* cell, and the diagram paves one cell more than that number.
C4_PathIsShortest ==
    PathReported =>
        LET g == lines(s)
            least == ShortestEscapeIn(g)
        IN  /\ least >= 0
            /\ last_step.distance = least
            /\ Cardinality(PavedCells(g)) = least + 1

\* C4 witness: a path of three steps has been reported while other members
\* of the frontier were still waiting.
C4_Witness_ThreeStepsWithRivals ==
    /\ PathReported
    /\ last_step.distance = 3
    /\ Len(found_to_check) >= 2

\* the first of '#', 'X', '.' the input does not use
FirstFreeGlyph ==
    IF "#" \notin UsedCharacters THEN "#"
    ELSE IF "X" \notin UsedCharacters THEN "X"
    ELSE "."

\* C5: in an escape-path report the paved cells form a chain from the centre
\* to a border cell, consecutive cells at Manhattan distance 1, all of them
\* background cells of the input; the paving glyph is the first of '#', 'X',
\* '.' that the grid does not use; every other cell shows its own character.
C5_DiagramShowsChain ==
    PathReported =>
        LET g == lines(s)
            n == Len(path_squares)
            chain == [i \in 1..n |-> CellOf(path_squares[n + 1 - i])]
            on_chain == {chain[i] : i \in 1..n}
        IN  /\ chain[1] = CentreOf(g)
            /\ OnBorder(g, chain[n])
            /\ \A i \in 1..(n - 1) : chain[i + 1] \in Around(chain[i])
            /\ on_chain \subseteq BackgroundCellsOf(g)
            /\ paving = FirstFreeGlyph
            /\ paving \notin UsedCharacters
            /\ Len(diagram_rows) = Len(g)
            /\ \A c \in CellsOf(g) :
                   diagram_rows[c[2] + 1][c[1] + 1] =
                       IF c \in on_chain THEN paving ELSE At(g, c)
            /\ report = MsgPath(DiagramText(diagram_rows))

\* C5 witness: a reported path that bends.
C5_Witness_BentPath ==
    /\ PathReported
    /\ \E i \in 1..Len(path_squares) : path_squares[i].x # path_squares[1].x
    /\ \E i \in 1..Len(path_squares) : path_squares[i].y # path_squares[1].y

\* the input is the perfect ring of an odd side >= 3: the cells of the band
\* hold the ring symbol, all others the background symbol
IsPerfectRing(g) ==
    /\ WellFormed(g)
    /\ Len(g) >= 3
    /\ \A c \in CellsOf(g) : (At(g, c) # BackgroundOf(g)) <=> InBand(g, c)

\* C6: the perfect ring of an odd side h >= 3 passes every structural check,
\* the search finds no escape path, and the report is the valid message with
\* radius h / 2.
C6_PerfectRingIsValid ==
    pc = "done" =>
        LET g == lines(s)
        IN  IsPerfectRing(g) => report = MsgValid(Len(g) \div 2)

\* C6 witness: the perfect ring of side 9 has been reported.
C6_Witness_RingOfSide9 == pc = "done" /\ h = 9 /\ IsPerfectRing(lines(s))

\* C7: for a square, odd-sided, two-symbol grid the misplaced-background
\* report is produced if and only if some cell with d <= r - 1 or d >= r + 1
\* does not hold the background character, and it lists exactly those cells,
\* each once, in row-major order, as "(x, y)".
C7_MisplacedListedExactly ==
    pc = "done" =>
        LET g == lines(s)
            listed == RowMajor(MisplacedIn(g))
        IN  WellFormed(g) =>
                /\ missing_background = listed
                /\ (report = MsgMissing(BackgroundOf(g), Listed(listed)))
                       <=> listed # <<>>

\* C7 witness: a report that lists two cells or more.
C7_Witness_SeveralListed ==
    /\ pc = "done"
    /\ Len(missing_background) >= 2
    /\ report = MsgMissing(BackgroundOf(lines(s)), Listed(missing_background))

IterationsAt(expanded, at) == Len(expanded) + (IF at = "done" THEN 1 ELSE 0)

\* C9 as stated: the loop ends after at most as many iterations as there are
\* background cells.
C9_Original_AtMostBackgroundCells ==
    SearchOver =>
        IterationsAt(checked, pc) <= Cardinality(BackgroundCellsOf(lines(s)))

\* an iteration of the search loop
Iteration == pc = "loop" /\ pc' \in {"loop", "done"}

\* C9, amended: an iteration of the search loop either returns or makes the
\* pair (size of unfound, size of the frontier) strictly smaller in the
\* lexicographic order, and the loop ends after at most one iteration more
\* than there are background cells.
C9_LoopTerminates ==
    [][Iteration =>
        /\ \/ pc' = "done"
           \/ Len(unfound') < Len(unfound)
           \/ /\ Len(unfound') = Len(unfound)
              /\ Len(found_to_check') < Len(found_to_check)
        /\ IterationsAt(checked', pc')
               <= Cardinality(BackgroundCellsOf(lines(s))) + 1]_vars

\* C9 witness: a search ran one iteration more than there are background cells.
C9_Witness_OneMoreIteration ==
    /\ SearchOver
    /\ IterationsAt(checked, pc) = Cardinality(BackgroundCellsOf(lines(s))) + 1

\* the cells of the locations of a sequence of Locations or of PathSteps
CellsOfLocations(q) == {CellOf(q[i]) : i \in 1..Len(q)}
CellsOfSteps(q) == {CellOf(q[i].location) : i \in 1..Len(q)}

\* C10: at every iteration of the search, unfound, the frontier and checked
\* hold no location twice, are pairwise disjoint and together are exactly the
\* background cells, the centre included; every step but the start has its
\* parent in checked, at a distance one less than its own.
C10_SearchPartition ==
    pc = "loop" =>
        LET g == lines(s)
            U == CellsOfLocations(unfound)
            F == CellsOfSteps(found_to_check)
            K == CellsOfSteps(checked)
            steps == found_to_check \o checked
        IN  /\ Cardinality(U) = Len(unfound)
            /\ Cardinality(F) = Len(found_to_check)
            /\ Cardinality(K) = Len(checked)
            /\ U \cap F = {} /\ U \cap K = {} /\ F \cap K = {}
            /\ U \cup F \cup K = BackgroundCellsOf(g)
            /\ \A i \in 1..Len(steps) :
                   IF steps[i].parent = None
                   THEN CellOf(steps[i].location) = CentreOf(g) /\ steps[i].distance = 0
                   ELSE \E j \in 1..Len(checked) :
                            /\ checked[j].location = steps[i].parent[1]
                            /\ steps[i].distance = checked[j].distance + 1

\* C10 witness: a search under way, with cells in each of the three.
C10_Witness_SearchUnderWay ==
    /\ pc = "loop"
    /\ Len(checked) >= 3
    /\ Len(found_to_check) >= 2
    /\ Len(unfound) >= 1

====
